---- MODULE Spec2Model ----
(***************************************************************************)
(* Model of target-mysql's MySQLSink (src/target_mysql/sinks.py): the      *)
(* batch commit protocol (process_batch, bulk_insert_records, upsert) and  *)
(* the version activation (activate_version), over a small relational      *)
(* database of destination and staging tables; and of the message handlers *)
(* of TargetMySQL (src/target_mysql/target.py) that feed the sinks.        *)
(***************************************************************************)
EXTENDS Integers, Sequences, FiniteSets, TLC

\* ---------------------------------------------------------------- bounds
\* Largest number of records in one batch (context["records"]).
MaxBatch == 2
\* Largest version number carried by a record or an ACTIVATE_VERSION message.
MaxVersion == 3
\* Largest number of activate_version calls in one behaviour.
MaxActivations == 2
\* Largest number of times the host process is started again after it stopped.
MaxRestarts == 1
\* Largest number of rows a destination table holds before the run starts.
MaxInitRows == 1
\* Largest number of batches a sink completes in one behaviour.
MaxBatches == 1
\* Largest number of batches a sink processes when the target's message loop
\* feeds two streams.
MaxTargetBatches == 2
\* Largest number of records the message loop hands to a sink before the
\* sink is drained.
MaxPending == 1
\* Largest number of ACTIVATE_VERSION messages the message loop reads.
MaxTargetActivations == 1

\* ---------------------------------------------------------------- values
\* A Python / SQL value is a tagged record, so that values of different
\* types never compare equal by accident.
NULL == [t |-> "null", n |-> 0]
IntV(n) == [t |-> "int", n |-> n]
\* decimal.Decimal(n)
DecV(n) == [t |-> "dec", n |-> n]
\* the Python string str(n)
StrV(n) == [t |-> "str", n |-> n]
\* a timestamp (pendulum.now()), n is the reading of the clock
TsV(n) == [t |-> "ts", n |-> n]

IsNull(v) == v.t = "null"

\* The streams of the run; a sink exists per stream.
AllStreams == {"s1", "s2"}

\* Values of the user fields a and b of a record.
KeyVals == {1, 11}
\* The decimal values a non-key field may carry.
DecVals == {5}

\* Every column a destination table can have: the user fields a, b and the
\* metadata columns _sdc_table_version (ver) and _sdc_deleted_at (del).
Fields == {"a", "b", "ver", "del"}
version_column_name == "ver"
soft_delete_column_name == "del"

\* Names of staging tables (uuid4 tokens).
TempNames == 1 .. (Cardinality(AllStreams) * (MaxRestarts + 1))

\* ------------------------------------------------------ sequence helpers
Range(s) == {s[i] : i \in 1 .. Len(s)}

SeqsUpTo(S, n) == UNION {[1 .. k -> S] : k \in 0 .. n}

RECURSIVE Concat(_)
Concat(ss) == IF ss = <<>> THEN <<>> ELSE Head(ss) \o Concat(Tail(ss))

\* ------------------------------------------------------------ Python str
\* str(n) of a non-negative int, as the sequence of its ASCII codes.
RECURSIVE Digits(_)
Digits(n) == IF n < 10 THEN <<48 + n>> ELSE Digits(n \div 10) \o <<48 + (n % 10)>>

\* str(value): "None" for None, the decimal digits for an int or a Decimal,
\* the string itself for a str.
Str(v) == IF IsNull(v) THEN <<78, 111, 110, 101>> ELSE Digits(v.n)

\* sinks.py 157-159: "".join([str(record[key]) for key in primary_keys])
primary_key_value(record, primary_keys) ==
    Concat([i \in 1 .. Len(primary_keys) |-> Str(record[primary_keys[i]])])

\* sinks.py 185-202: sanitize_entry turns a Decimal into its string and leaves
\* every other scalar as it is.
sanitize_entry(v) == IF v.t = "dec" THEN StrV(v.n) ELSE v

\* dict.get(name): the value, or None when the record has no such field.
Get(record, name) == IF name \in DOMAIN record THEN record[name] ELSE NULL

\* ----------------------------------------------------------- SQL helpers
\* SQL "=": true only when both sides are non-null and equal.
SqlEq(x, y) == ~IsNull(x) /\ ~IsNull(y) /\ x = y

\* SQL "col < n" and "col <= n" for an integer column: unknown (not true) on NULL.
SqlLt(x, n) == x.t = "int" /\ x.n < n
SqlLe(x, n) == x.t = "int" /\ x.n <= n

\* The join condition of upsert (sinks.py 233-239): every join key is equal.
join_condition(from_row, to_row, join_keys) ==
    \A i \in 1 .. Len(join_keys) : SqlEq(from_row[join_keys[i]], to_row[join_keys[i]])

Matches(rows, r, keys) == \E i \in 1 .. Len(rows) : join_condition(r, rows[i], keys)

\* A full table row made of an insert_record: columns that the statement does
\* not name are NULL.
ToRow(insert_record) == [f \in Fields |-> Get(insert_record, f)]

\* A table that does not exist.
NoTable == [exists |-> FALSE, hasVer |-> FALSE, hasDel |-> FALSE, rows |-> <<>>]

\* -------------------------------------------------- bulk_insert_records
\* sinks.py 269-285: one column per property of the schema, in schema order.
\* With add_record_metadata the schema also declares the metadata columns.
column_representation(add_record_metadata) ==
    IF add_record_metadata THEN <<"a", "b", "ver", "del">> ELSE <<"a", "b">>

\* sinks.py 154-156: insert_record[column.name] = record.get(column.name)
InsertRecord(record, columns) == [c \in Range(columns) |-> Get(record, c)]

\* sinks.py 170-181: the append-only projection sanitizes Decimal values.
InsertRecordSanitized(record, columns) ==
    [c \in Range(columns) |->
        IF Get(record, c).t = "dec" THEN sanitize_entry(Get(record, c))
        ELSE Get(record, c)]

\* insert_records[primary_key_value] = insert_record on a Python dict, kept
\* as the sequence of its items in insertion order: an existing key keeps its
\* place and takes the new value.
DictSet(d, k, r) ==
    IF \E i \in 1 .. Len(d) : d[i].k = k
    THEN [i \in 1 .. Len(d) |-> IF d[i].k = k THEN [k |-> k, r |-> r] ELSE d[i]]
    ELSE Append(d, [k |-> k, r |-> r])

\* sinks.py 153-160: the loop that fills insert_records.
RECURSIVE InsertRecords(_, _, _, _)
InsertRecords(records, columns, primary_keys, d) ==
    IF records = <<>> THEN d
    ELSE InsertRecords(Tail(records), columns, primary_keys,
            DictSet(d, primary_key_value(Head(records), primary_keys),
                    InsertRecord(Head(records), columns)))

\* sinks.py 158, 161: record[key] raises KeyError for a record without the key.
RaisesKeyError(records, primary_keys) ==
    \E i \in 1 .. Len(records) : \E j \in 1 .. Len(primary_keys) :
        primary_keys[j] \notin DOMAIN records[i]

\* data_to_insert if the append-only branch also went through the dict.
DataToInsertAlwaysDedup(records, columns, primary_keys, append_only) ==
    LET d == InsertRecords(records, columns, primary_keys, <<>>)
    IN  [i \in 1 .. Len(d) |-> d[i].r]

\* sinks.py 148-181: data_to_insert of bulk_insert_records.
DataToInsert(records, columns, primary_keys, append_only) ==
    IF ~append_only
    THEN LET d == InsertRecords(records, columns, primary_keys, <<>>)
         IN  [i \in 1 .. Len(d) |-> d[i].r]
    ELSE [i \in 1 .. Len(records) |-> InsertRecordSanitized(records[i], columns)]

\* sinks.py 182: INSERT IGNORE of data_to_insert: a row whose primary-key tuple
\* is already in the table is dropped; without primary keys nothing is dropped.
RECURSIVE InsertIgnore(_, _, _)
InsertIgnore(rows, data, primary_keys) ==
    IF data = <<>> THEN rows
    ELSE LET r == ToRow(Head(data))
         IN  InsertIgnore(
                 IF Len(primary_keys) > 0 /\ Matches(rows, r, primary_keys)
                 THEN rows ELSE Append(rows, r),
                 Tail(data), primary_keys)

\* ------------------------------------------------------------------ upsert
\* The append if it skipped the staging rows that the destination already holds.
AppendAllNew(from_rows, to_rows) ==
    to_rows \o SelectSeq(from_rows, LAMBDA r : r \notin Range(to_rows))

\* The append if it selected the distinct staging rows (SELECT DISTINCT).
AppendAllDistinct(from_rows, to_rows) ==
    LET keep == SelectSeq([i \in 1 .. Len(from_rows) |-> i],
                          LAMBDA i : \A j \in 1 .. i - 1 : from_rows[j] # from_rows[i])
    IN  to_rows \o [k \in 1 .. Len(keep) |-> from_rows[keep[k]]]

\* sinks.py 226-231: INSERT INTO to_table SELECT * FROM from_table.
AppendAll(from_rows, to_rows) == to_rows \o from_rows

\* The insert of upsert without the filter on the outer join: every staging row
\* is inserted.
InsertNewAll(from_rows, to_rows, join_keys) == to_rows \o from_rows

\* sinks.py 247-256: insert the staging rows that the outer join leaves without
\* a destination row (every destination key IS NULL).
InsertNew(from_rows, to_rows, join_keys) ==
    to_rows \o SelectSeq(from_rows, LAMBDA r : ~Matches(to_rows, r, join_keys))

\* The update of upsert if update_columns were built from the join keys alone.
UpdateExistingKeysOnly(from_rows, to_rows, join_keys, columns) ==
    [i \in 1 .. Len(to_rows) |->
        IF Matches(from_rows, to_rows[i], join_keys)
        THEN LET f == from_rows[CHOOSE j \in 1 .. Len(from_rows) :
                          join_condition(from_rows[j], to_rows[i], join_keys)]
             IN  [c \in Fields |-> IF c \in Range(join_keys) THEN f[c] ELSE to_rows[i][c]]
        ELSE to_rows[i]]

\* The update of upsert if its WHERE joined on the first key alone.
UpdateExistingFirstKey(from_rows, to_rows, join_keys, columns) ==
    [i \in 1 .. Len(to_rows) |->
        IF Matches(from_rows, to_rows[i], SubSeq(join_keys, 1, 1))
        THEN LET f == from_rows[CHOOSE j \in 1 .. Len(from_rows) :
                          join_condition(from_rows[j], to_rows[i], SubSeq(join_keys, 1, 1))]
             IN  [c \in Fields |-> IF c \in Range(columns) THEN f[c] ELSE to_rows[i][c]]
        ELSE to_rows[i]]

\* sinks.py 258-267: UPDATE to_table SET <schema columns> = from_table's WHERE
\* the join condition holds. A destination row takes the values of a staging
\* row that joins with it.
UpdateExisting(from_rows, to_rows, join_keys, columns) ==
    [i \in 1 .. Len(to_rows) |->
        IF Matches(from_rows, to_rows[i], join_keys)
        THEN LET f == from_rows[CHOOSE j \in 1 .. Len(from_rows) :
                          join_condition(from_rows[j], to_rows[i], join_keys)]
             IN  [c \in Fields |-> IF c \in Range(columns) THEN f[c] ELSE to_rows[i][c]]
        ELSE to_rows[i]]

\* sinks.py 204-267: the whole of upsert.
Upsert(from_rows, to_rows, join_keys, columns, append_only) ==
    IF append_only THEN AppendAll(from_rows, to_rows)
    ELSE UpdateExisting(from_rows, InsertNew(from_rows, to_rows, join_keys),
                        join_keys, columns)

\* -------------------------------------------------------- activate_version
\* The DELETE without "OR version IS NULL": rows of no version stay.
HardDeleteVersioned(rows, new_version) ==
    SelectSeq(rows, LAMBDA r : ~SqlLe(r.ver, new_version))

\* The DELETE with "<" in place of "<=".
HardDeleteBelow(rows, new_version) ==
    SelectSeq(rows, LAMBDA r : ~(SqlLt(r.ver, new_version) \/ IsNull(r.ver)))

\* sinks.py 376-381: DELETE ... WHERE version <= new_version OR version IS NULL
HardDelete(rows, new_version) ==
    SelectSeq(rows, LAMBDA r : ~(SqlLe(r.ver, new_version) \/ IsNull(r.ver)))

\* sinks.py 394-400: the WHERE clause of the soft-delete UPDATE; AND binds
\* tighter than OR.
SoftDeleteWhere(r, new_version) ==
    SqlLt(r.ver, new_version) \/ (IsNull(r.ver) /\ IsNull(r.del))

\* The soft-delete UPDATE if it also set the version column to the watermark.
SoftDeleteStampVersion(rows, new_version, deleted_at) ==
    [i \in 1 .. Len(rows) |->
        IF SoftDeleteWhere(rows[i], new_version)
        THEN [rows[i] EXCEPT !.del = TsV(deleted_at), !.ver = IntV(new_version)]
        ELSE rows[i]]

\* sinks.py 394-405: UPDATE ... SET deleted_at = :deletedate WHERE ...
SoftDelete(rows, new_version, deleted_at) ==
    [i \in 1 .. Len(rows) |->
        IF SoftDeleteWhere(rows[i], new_version)
        THEN [rows[i] EXCEPT !.del = TsV(deleted_at)]
        ELSE rows[i]]

\* =================================================================== state
VARIABLES
    config,           \* the target's config: hard_delete, add_record_metadata
    active,           \* the streams that have a sink in this run
    key_properties,   \* per stream: the declared primary-key list
    dest,             \* per stream: the destination table (full_table_name)
    temp,             \* per staging-table name: the staging table
    uuids,            \* the tokens uuid4 has produced so far
    pc,               \* per sink: its position in its life and in process_batch
    temp_table_name,  \* per sink: self.temp_table_name
    append_only,      \* per sink: self._append_only
    records,          \* per sink: context["records"] of its last process_batch
    data_to_insert,   \* per sink: data_to_insert of its last bulk_insert_records
    error,            \* per sink: the exception that ended its batch
    stmts,            \* per sink: the statements its running handler has issued
    redeliver,        \* per sink: the interrupted batch is delivered again
    nbatch,           \* per sink: batches completed
    restarts,         \* times the host process was started again
    clock,            \* activate_version calls so far; the reading of now()
    dest0,            \* per sink: dest when the last batch or activation began
    upsert0,          \* per sink: dest when the upsert of its last batch began
    last,             \* per sink: the last handler called and its arguments
    created           \* the names under which a staging table has been created

vars == <<config, active, key_properties, dest, temp, uuids, pc, temp_table_name,
          append_only, records, data_to_insert, error, stmts, redeliver, nbatch,
          restarts, clock, dest0, upsert0, last, created>>

NoError == [kind |-> "none", table |-> 0, primary_keys |-> <<>>]
NoCall == [op |-> "none", new_version |-> 0, deleted_at |-> 0]

\* --------------------------------------------------------- input domains
\* The primary-key declarations a stream can make.
KeyLists == {<<>>, <<"a">>, <<"a", "b">>}

\* The values of the two user fields in a record: a is an int; so is b where
\* it is a key, and an int or a Decimal where it is not.
FieldVals(f, primary_keys) ==
    IF f = "b" /\ f \notin Range(primary_keys)
    THEN {IntV(CHOOSE n \in KeyVals : \A m \in KeyVals : n <= m)} \cup {DecV(n) : n \in DecVals}
    ELSE {IntV(n) : n \in KeyVals}

\* A record as the tap sends it: any subset of the user fields.
UserRecords(primary_keys) ==
    UNION {
        {r \in [D -> UNION {FieldVals(f, primary_keys) : f \in D}] :
            \A f \in D : r[f] \in FieldVals(f, primary_keys)}
        : D \in SUBSET {"a", "b"}}

\* With add_record_metadata the SDK stamps the records of a batch with the
\* version of their RECORD messages and an unset _sdc_deleted_at.
Stamp(r, add_record_metadata, version) ==
    IF add_record_metadata
    THEN [f \in DOMAIN r \cup {"ver", "del"} |->
            IF f = "ver" THEN version ELSE IF f = "del" THEN NULL ELSE r[f]]
    ELSE r

Versions == {NULL} \cup {IntV(n) : n \in 1 .. MaxVersion}

Batches(primary_keys, add_record_metadata) ==
    {[i \in 1 .. Len(b) |-> Stamp(b[i], add_record_metadata, v)] :
        b \in SeqsUpTo(UserRecords(primary_keys), MaxBatch),
        v \in IF add_record_metadata THEN Versions ELSE {NULL}}

\* No two rows of the table share a primary-key tuple.
UniqueKeys(rows, primary_keys) ==
    \A i, j \in 1 .. Len(rows) :
        i # j => ~join_condition(rows[i], rows[j], primary_keys)

\* The rows a destination table can hold before the run starts.
InitRowSet(add_record_metadata, hasDel) ==
    {[a |-> IntV(x), b |-> IntV(y), ver |-> v, del |-> d] :
        x \in KeyVals, y \in KeyVals,
        v \in IF add_record_metadata THEN Versions ELSE {NULL},
        d \in IF hasDel THEN {NULL, TsV(0)} ELSE {NULL}}

\* The destination tables the database can hold before the run starts: none,
\* or a table left by earlier runs. Its metadata columns exist when the schema
\* declares them, or when an earlier activation added them (the version
\* column first). A table of a stream with primary keys holds one row per key.
InitTables(primary_keys, add_record_metadata) ==
    {NoTable} \cup
    UNION {
        {[exists |-> TRUE, hasVer |-> c[1], hasDel |-> c[2], rows |-> rs] :
            rs \in {x \in SeqsUpTo(InitRowSet(add_record_metadata, c[2]), MaxInitRows) :
                      UniqueKeys(x, primary_keys)}}
        : c \in IF add_record_metadata THEN {<<TRUE, TRUE>>}
                ELSE {<<FALSE, FALSE>>, <<TRUE, FALSE>>, <<TRUE, TRUE>>}}

\* ==================================================================== Init
\* The state after the target has constructed its sinks (MySQLSink.__init__,
\* sinks.py 29-38): each sink has generated its temp_table_name and has not
\* run setup. One stream has a sink.
Init ==
    /\ config \in [hard_delete : BOOLEAN, add_record_metadata : BOOLEAN]
    /\ active = {"s1"}
    /\ \E keys \in [active -> KeyLists] :
          /\ key_properties = [s \in AllStreams |-> IF s \in active THEN keys[s] ELSE <<>>]
          /\ \E tables \in [active -> UNION {InitTables(k, config.add_record_metadata) :
                                                k \in {keys[s] : s \in active}}] :
                /\ \A s \in active :
                       tables[s] \in InitTables(keys[s], config.add_record_metadata)
                /\ dest = [s \in AllStreams |-> IF s \in active THEN tables[s] ELSE NoTable]
    /\ temp = [n \in TempNames |-> NoTable]
    /\ temp_table_name = [s \in AllStreams |-> IF s = "s1" THEN 1 ELSE 2]
    /\ uuids = {1, 2}
    /\ pc = [s \in AllStreams |-> "new"]
    /\ append_only = [s \in AllStreams |-> FALSE]
    /\ records = [s \in AllStreams |-> <<>>]
    /\ data_to_insert = [s \in AllStreams |-> <<>>]
    /\ error = [s \in AllStreams |-> NoError]
    /\ stmts = [s \in AllStreams |-> <<>>]
    /\ redeliver = [s \in AllStreams |-> FALSE]
    /\ nbatch = [s \in AllStreams |-> 0]
    /\ restarts = 0
    /\ clock = 0
    /\ dest0 = dest
    /\ upsert0 = dest
    /\ last = [s \in AllStreams |-> NoCall]
    /\ created = {}

\* ================================================================= actions
\* connector.prepare_table(full_table_name, schema, primary_keys,
\* as_temp_table=False): creates the table with the schema's columns when it
\* does not exist and returns the existing one otherwise.
prepare_table(table, add_record_metadata) ==
    IF table.exists THEN table
    ELSE [exists |-> TRUE, hasVer |-> add_record_metadata,
          hasDel |-> add_record_metadata, rows |-> <<>>]

\* connector.prepare_table(..., as_temp_table=True): a new, empty table shaped
\* like the destination.
prepare_temp_table(table) ==
    [exists |-> TRUE, hasVer |-> table.hasVer, hasDel |-> table.hasDel, rows |-> <<>>]

\* A name that is derived from nothing that differs between sinks: every call
\* returns the same token.
generate_fixed_table_name(used) == CHOOSE n \in TempNames : \A m \in TempNames : n <= m

\* sinks.py 109-115: a fresh uuid4 token. Tokens are interchangeable, so the
\* least unused one stands for any of them.
generate_temp_table_name(used) == CHOOSE n \in TempNames \ used : \A m \in TempNames \ used : n <= m

\* setup if it left the append_only flag as it found it.
SetupKeepMode(s) ==
    /\ pc[s] = "new"
    /\ dest' = [dest EXCEPT ![s] = prepare_table(dest[s], config.add_record_metadata)]
    /\ stmts' = [stmts EXCEPT ![s] = IF dest[s].exists THEN <<>> ELSE <<"create_table">>]
    /\ pc' = [pc EXCEPT ![s] = "idle"]
    /\ UNCHANGED <<config, active, created, key_properties, temp, uuids, temp_table_name,
                   append_only, records, data_to_insert, error, redeliver, nbatch,
                   restarts, clock, dest0, upsert0, last>>

\* sinks.py 50-67: setup.
Setup(s) ==
    /\ pc[s] = "new"
    /\ append_only' = [append_only EXCEPT ![s] = (key_properties[s] = <<>>)]
    /\ dest' = [dest EXCEPT ![s] = prepare_table(dest[s], config.add_record_metadata)]
    /\ stmts' = [stmts EXCEPT ![s] = IF dest[s].exists THEN <<>> ELSE <<"create_table">>]
    /\ pc' = [pc EXCEPT ![s] = "idle"]
    /\ UNCHANGED <<config, active, created, key_properties, temp, uuids, temp_table_name,
                   records, data_to_insert, error, redeliver, nbatch, restarts,
                   clock, dest0, upsert0, last>>

\* sinks.py 78-91: process_batch is called with the batch's records; it makes
\* sure the destination table exists and creates the staging table.
ProcessBatchPrepare(s, batch) ==
    /\ records' = [records EXCEPT ![s] = batch]
    /\ dest' = [dest EXCEPT ![s] = prepare_table(dest[s], config.add_record_metadata)]
    /\ temp' = [temp EXCEPT ![temp_table_name[s]] = prepare_temp_table(dest'[s])]
    /\ stmts' = [stmts EXCEPT ![s] =
                    (IF dest[s].exists THEN <<>> ELSE <<"create_table">>)
                    \o <<"create_temp_table">>]
    /\ dest0' = [dest0 EXCEPT ![s] = IF redeliver[s] THEN dest0[s] ELSE dest[s]]
    /\ data_to_insert' = [data_to_insert EXCEPT ![s] = <<>>]
    /\ error' = [error EXCEPT ![s] = NoError]
    /\ last' = [last EXCEPT ![s] = [NoCall EXCEPT !.op = "process_batch"]]
    /\ created' = created \cup {temp_table_name[s]}
    /\ pc' = [pc EXCEPT ![s] = "insert"]
    /\ UNCHANGED <<config, active, key_properties, uuids, temp_table_name,
                   append_only, redeliver, nbatch, restarts, clock, upsert0>>

\* bulk_insert_records if it executed the INSERT before raising: the records
\* ahead of the first one without a primary key reach the staging table.
BulkInsertRecordsLateError(s) ==
    /\ pc[s] = "insert"
    /\ LET columns == column_representation(config.add_record_metadata)
           name == temp_table_name[s]
           keys == key_properties[s]
           good == IF ~append_only[s] /\ RaisesKeyError(records[s], keys)
                   THEN SubSeq(records[s], 1,
                            (CHOOSE i \in 1 .. Len(records[s]) :
                                /\ RaisesKeyError(<<records[s][i]>>, keys)
                                /\ \A j \in 1 .. i - 1 :
                                       ~RaisesKeyError(<<records[s][j]>>, keys)) - 1)
                   ELSE records[s]
       IN  /\ data_to_insert' = [data_to_insert EXCEPT ![s] =
                    DataToInsert(good, columns, keys, append_only[s])]
           /\ temp' = [temp EXCEPT ![name].rows = InsertIgnore(@, data_to_insert'[s], keys)]
           /\ stmts' = [stmts EXCEPT ![s] = Append(@, "insert_ignore")]
           /\ IF good = records[s]
              THEN pc' = [pc EXCEPT ![s] = "merge"] /\ UNCHANGED error
              ELSE /\ pc' = [pc EXCEPT ![s] = "failed"]
                   /\ error' = [error EXCEPT ![s] =
                           [kind |-> "RuntimeError", table |-> name, primary_keys |-> keys]]
    /\ UNCHANGED <<config, active, created, key_properties, dest, uuids, temp_table_name,
                   append_only, records, redeliver, nbatch, restarts, clock,
                   dest0, upsert0, last>>

\* bulk_insert_records if it neither collapsed the records by key nor let the
\* insert ignore duplicate keys: every record reaches the staging table.
BulkInsertRecordsNoDedup(s) ==
    /\ pc[s] = "insert"
    /\ LET columns == column_representation(config.add_record_metadata)
           name == temp_table_name[s]
       IN  IF ~append_only[s] /\ RaisesKeyError(records[s], key_properties[s])
           THEN /\ error' = [error EXCEPT ![s] =
                        [kind |-> "RuntimeError", table |-> name,
                         primary_keys |-> key_properties[s]]]
                /\ pc' = [pc EXCEPT ![s] = "failed"]
                /\ UNCHANGED <<data_to_insert, temp, stmts>>
           ELSE /\ data_to_insert' = [data_to_insert EXCEPT ![s] =
                        DataToInsert(records[s], columns, key_properties[s], TRUE)]
                /\ temp' = [temp EXCEPT ![name].rows =
                        InsertIgnore(@, data_to_insert'[s], <<>>)]
                /\ stmts' = [stmts EXCEPT ![s] = Append(@, "insert_ignore")]
                /\ pc' = [pc EXCEPT ![s] = "merge"]
                /\ UNCHANGED error
    /\ UNCHANGED <<config, active, created, key_properties, dest, uuids, temp_table_name,
                   append_only, records, redeliver, nbatch, restarts, clock,
                   dest0, upsert0, last>>

\* sinks.py 92-98 and 117-183: bulk_insert_records into the staging table.
\* A record without a primary-key field ends it with the RuntimeError of
\* lines 161-166, before the INSERT of line 182.
BulkInsertRecords(s) ==
    /\ pc[s] = "insert"
    /\ LET columns == column_representation(config.add_record_metadata)
           name == temp_table_name[s]
       IN  IF ~append_only[s] /\ RaisesKeyError(records[s], key_properties[s])
           THEN /\ error' = [error EXCEPT ![s] =
                        [kind |-> "RuntimeError", table |-> name,
                         primary_keys |-> key_properties[s]]]
                /\ pc' = [pc EXCEPT ![s] = "failed"]
                /\ UNCHANGED <<data_to_insert, temp, stmts>>
           ELSE /\ data_to_insert' = [data_to_insert EXCEPT ![s] =
                        DataToInsert(records[s], columns, key_properties[s],
                                     append_only[s])]
                /\ temp' = [temp EXCEPT ![name].rows =
                        InsertIgnore(@, data_to_insert'[s], key_properties[s])]
                /\ stmts' = [stmts EXCEPT ![s] = Append(@, "insert_ignore")]
                /\ pc' = [pc EXCEPT ![s] = "merge"]
                /\ UNCHANGED error
    /\ UNCHANGED <<config, active, created, key_properties, dest, uuids, temp_table_name,
                   append_only, records, redeliver, nbatch, restarts, clock,
                   dest0, upsert0, last>>

\* upsert if process_batch could call it before bulk_insert_records.
UpsertInsertEarly(s) ==
    /\ pc[s] \in {"insert", "merge"}
    /\ upsert0' = [upsert0 EXCEPT ![s] = dest[s]]
    /\ LET from_rows == temp[temp_table_name[s]].rows
       IN  IF append_only[s]
           THEN /\ dest' = [dest EXCEPT ![s].rows = AppendAll(from_rows, @)]
                /\ stmts' = [stmts EXCEPT ![s] = Append(@, "insert_select")]
                /\ pc' = [pc EXCEPT ![s] = "drop"]
           ELSE /\ dest' = [dest EXCEPT ![s].rows =
                                InsertNew(from_rows, @, key_properties[s])]
                /\ stmts' = [stmts EXCEPT ![s] = Append(@, "insert_new")]
                /\ pc' = [pc EXCEPT ![s] = "update"]
    /\ UNCHANGED <<config, active, created, key_properties, temp, uuids, temp_table_name,
                   append_only, records, data_to_insert, error, redeliver, nbatch,
                   restarts, clock, dest0, last>>

\* sinks.py 99-105 and 224-256: the first statement of upsert: the append of
\* the append-only mode, or the insert of the new keys.
UpsertInsert(s) ==
    /\ pc[s] = "merge"
    /\ upsert0' = [upsert0 EXCEPT ![s] = dest[s]]
    /\ LET from_rows == temp[temp_table_name[s]].rows
       IN  IF append_only[s]
           THEN /\ dest' = [dest EXCEPT ![s].rows = AppendAll(from_rows, @)]
                /\ stmts' = [stmts EXCEPT ![s] = Append(@, "insert_select")]
                /\ pc' = [pc EXCEPT ![s] = "drop"]
           ELSE /\ dest' = [dest EXCEPT ![s].rows =
                                InsertNew(from_rows, @, key_properties[s])]
                /\ stmts' = [stmts EXCEPT ![s] = Append(@, "insert_new")]
                /\ pc' = [pc EXCEPT ![s] = "update"]
    /\ UNCHANGED <<config, active, created, key_properties, temp, uuids, temp_table_name,
                   append_only, records, data_to_insert, error, redeliver, nbatch,
                   restarts, clock, dest0, last>>

\* sinks.py 258-267: the second statement of upsert: the update of the rows
\* that join with a staging row.
UpsertUpdate(s) ==
    /\ pc[s] = "update"
    /\ dest' = [dest EXCEPT ![s].rows =
                    UpdateExisting(temp[temp_table_name[s]].rows, @, key_properties[s],
                                   column_representation(config.add_record_metadata))]
    /\ stmts' = [stmts EXCEPT ![s] = Append(@, "update")]
    /\ pc' = [pc EXCEPT ![s] = "drop"]
    /\ UNCHANGED <<config, active, created, key_properties, temp, uuids, temp_table_name,
                   append_only, records, data_to_insert, error, redeliver, nbatch,
                   restarts, clock, dest0, upsert0, last>>

\* sinks.py 106-107: connector.drop_table(temp_table) ends process_batch.
DropTable(s) ==
    /\ pc[s] = "drop"
    /\ temp' = [temp EXCEPT ![temp_table_name[s]] = NoTable]
    /\ stmts' = [stmts EXCEPT ![s] = Append(@, "drop_table")]
    /\ nbatch' = [nbatch EXCEPT ![s] = @ + 1]
    /\ redeliver' = [redeliver EXCEPT ![s] = FALSE]
    /\ pc' = [pc EXCEPT ![s] = "idle"]
    /\ UNCHANGED <<config, active, created, key_properties, dest, uuids, temp_table_name,
                   append_only, records, data_to_insert, error, restarts, clock,
                   dest0, upsert0, last>>

\* connector.prepare_column(full_table_name, column_name, sql_type): adds the
\* nullable column; the existing rows hold NULL in it.
prepare_column(table, column_name) ==
    IF column_name = version_column_name THEN [table EXCEPT !.hasVer = TRUE]
    ELSE [table EXCEPT !.hasDel = TRUE]

\* activate_version without the table_exists check of lines 350-351: the
\* columns are prepared whether or not the table exists.
ActivatedTableUnchecked(table, new_version, hard_delete, deleted_at) ==
    LET t1 == IF table.hasVer THEN table
              ELSE prepare_column(table, version_column_name)
    IN  IF hard_delete
        THEN [t1 EXCEPT !.rows = HardDelete(@, new_version)]
        ELSE LET t2 == IF t1.hasDel THEN t1
                       ELSE prepare_column(t1, soft_delete_column_name)
             IN  [t2 EXCEPT !.rows = SoftDelete(@, new_version, deleted_at)]

\* activate_version if it prepared both metadata columns before it chose
\* between the hard and the soft delete.
ActivatedTableEagerColumns(table, new_version, hard_delete, deleted_at) ==
    IF ~table.exists THEN table
    ELSE LET t1 == IF table.hasVer THEN table
                   ELSE prepare_column(table, version_column_name)
             t2 == IF t1.hasDel THEN t1
                   ELSE prepare_column(t1, soft_delete_column_name)
         IN  IF hard_delete
             THEN [t2 EXCEPT !.rows = HardDelete(@, new_version)]
             ELSE [t2 EXCEPT !.rows = SoftDelete(@, new_version, deleted_at)]

\* sinks.py 342-405: the table activate_version leaves. A table that does not
\* exist is left alone (350-351); the version column is added when missing
\* (364-372); hard delete (375-382) returns before the soft-delete column is
\* added (384-392) and the soft-delete UPDATE runs (394-405).
ActivatedTable(table, new_version, hard_delete, deleted_at) ==
    IF ~table.exists THEN table
    ELSE LET t1 == IF table.hasVer THEN table
                   ELSE prepare_column(table, version_column_name)
         IN  IF hard_delete
             THEN [t1 EXCEPT !.rows = HardDelete(@, new_version)]
             ELSE LET t2 == IF t1.hasDel THEN t1
                            ELSE prepare_column(t1, soft_delete_column_name)
                  IN  [t2 EXCEPT !.rows = SoftDelete(@, new_version, deleted_at)]

\* sinks.py 342-405: the statements activate_version issues, in order.
ActivateStatements(table, hard_delete) ==
    IF ~table.exists THEN <<>>
    ELSE (IF table.hasVer THEN <<>> ELSE <<"add_column_ver">>)
         \o (IF hard_delete THEN <<"delete">>
             ELSE (IF table.hasDel THEN <<>> ELSE <<"add_column_del">>)
                  \o <<"update">>)

\* sinks.py 342-405: activate_version(new_version), called between batches;
\* deleted_at = now() is the reading of the clock.
ActivateVersion(s, new_version) ==
    /\ pc[s] \in {"new", "idle"}
    /\ ~redeliver[s]
    /\ clock < MaxActivations
    /\ clock' = clock + 1
    /\ dest0' = [dest0 EXCEPT ![s] = dest[s]]
    /\ last' = [last EXCEPT ![s] = [op |-> "activate_version",
                                    new_version |-> new_version,
                                    deleted_at |-> clock']]
    /\ dest' = [dest EXCEPT ![s] =
                    ActivatedTable(dest[s], new_version, config.hard_delete, clock')]
    /\ stmts' = [stmts EXCEPT ![s] = ActivateStatements(dest[s], config.hard_delete)]
    /\ records' = [records EXCEPT ![s] = <<>>]
    /\ data_to_insert' = [data_to_insert EXCEPT ![s] = <<>>]
    /\ upsert0' = [upsert0 EXCEPT ![s] = dest[s]]
    /\ UNCHANGED <<config, active, created, key_properties, temp, uuids, pc, temp_table_name,
                   append_only, error, redeliver, nbatch, restarts>>

\* The positions of process_batch at which the staging table exists.
InBatch == {"insert", "merge", "update", "drop"}

\* sinks.py 69: process_batch is called with a batch of the stream's records,
\* or with the interrupted batch when that is delivered again.
ProcessBatch(s) ==
    /\ pc[s] = "idle"
    /\ nbatch[s] < MaxBatches
    /\ IF redeliver[s] THEN ProcessBatchPrepare(s, records[s])
       ELSE /\ clock = 0
            /\ \E batch \in Batches(key_properties[s], config.add_record_metadata) :
                   ProcessBatchPrepare(s, batch)

RECURSIVE Regenerate(_, _, _)
Regenerate(S, used, names) ==
    IF S = {} THEN names
    ELSE LET s == CHOOSE x \in S : TRUE
             n == generate_temp_table_name(used)
         IN  Regenerate(S \ {s}, used \cup {n}, [names EXCEPT ![s] = n])

\* The host process stops while a batch is in progress (it is killed, or the
\* error of a batch ends it) and is started again: the sinks are constructed
\* anew (sinks.py 29-38) and the tap's records are delivered again. The
\* database keeps what the statements executed so far have written.
Restart ==
    /\ restarts < MaxRestarts
    /\ \E s \in active : pc[s] \in InBatch \cup {"failed"}
    /\ restarts' = restarts + 1
    /\ temp_table_name' = Regenerate(active, uuids, temp_table_name)
    /\ uuids' = uuids \cup {temp_table_name'[s] : s \in active}
    /\ pc' = [s \in AllStreams |-> IF s \in active THEN "new" ELSE pc[s]]
    /\ redeliver' = [s \in AllStreams |->
                        redeliver[s] \/ (s \in active /\ pc[s] \in InBatch \cup {"failed"})]
    /\ append_only' = [s \in AllStreams |-> IF s \in active THEN FALSE ELSE append_only[s]]
    /\ error' = [s \in AllStreams |-> IF s \in active THEN NoError ELSE error[s]]
    /\ stmts' = [s \in AllStreams |-> IF s \in active THEN <<>> ELSE stmts[s]]
    /\ last' = [s \in AllStreams |->
                   IF s \in active THEN [last[s] EXCEPT !.op = "restart"] ELSE last[s]]
    /\ UNCHANGED <<config, active, created, key_properties, dest, temp, records,
                   data_to_insert, nbatch, clock, dest0, upsert0>>

Next ==
    \/ \E s \in active : Setup(s)
    \/ \E s \in active : ProcessBatch(s)
    \/ \E s \in active : BulkInsertRecords(s)
    \/ \E s \in active : UpsertInsert(s)
    \/ \E s \in active : UpsertUpdate(s)
    \/ \E s \in active : DropTable(s)
    \/ \E s \in active : \E v \in 1 .. MaxVersion : ActivateVersion(s, v)
    \/ Restart

Spec == Init /\ [][Next]_vars

\* ================================================ the target's message loop
\* A second specification: the target reads SCHEMA, RECORD and
\* ACTIVATE_VERSION messages of two streams; a stream gets its sink with its
\* SCHEMA message, and the sinks of different streams process their batches
\* step by step in any interleaving.

\* The records a RECORD message of the stream can carry; with
\* add_record_metadata they are of version 2, so that a later watermark can be
\* below, at or above it.
TargetRecords(primary_keys, add_record_metadata) ==
    {Stamp(r, add_record_metadata, IntV(2)) :
        r \in {[a |-> IntV(x), b |-> IntV(1)] : x \in KeyVals} \cup {[b |-> IntV(1)]}}

\* The state of a target that has read no message: no stream has a schema or
\* a sink, and the database holds no table.
InitTarget ==
    /\ config \in [hard_delete : BOOLEAN, add_record_metadata : BOOLEAN]
    /\ active = {}
    /\ key_properties = [s \in AllStreams |-> <<>>]
    /\ dest = [s \in AllStreams |-> NoTable]
    /\ temp = [n \in TempNames |-> NoTable]
    /\ temp_table_name = [s \in AllStreams |-> 0]
    /\ uuids = {}
    /\ pc = [s \in AllStreams |-> "new"]
    /\ append_only = [s \in AllStreams |-> FALSE]
    /\ records = [s \in AllStreams |-> <<>>]
    /\ data_to_insert = [s \in AllStreams |-> <<>>]
    /\ error = [s \in AllStreams |-> NoError]
    /\ stmts = [s \in AllStreams |-> <<>>]
    /\ redeliver = [s \in AllStreams |-> FALSE]
    /\ nbatch = [s \in AllStreams |-> 0]
    /\ restarts = 0
    /\ clock = 0
    /\ dest0 = dest
    /\ upsert0 = dest
    /\ last = [s \in AllStreams |-> NoCall]
    /\ created = {}

\* target.py 187-195: the first SCHEMA message of a stream. The SDK registers
\* the stream's schema (mapper.stream_maps) and constructs the stream's sink,
\* whose __init__ (sinks.py 29-38) generates its temp_table_name.
ProcessSchemaMessage(s, keys) ==
    /\ s \notin active
    /\ active' = active \cup {s}
    /\ key_properties' = [key_properties EXCEPT ![s] = keys]
    /\ temp_table_name' = [temp_table_name EXCEPT ![s] = generate_temp_table_name(uuids)]
    /\ uuids' = uuids \cup {temp_table_name'[s]}
    /\ error' = [error EXCEPT ![s] = NoError]
    /\ last' = [last EXCEPT ![s] = [NoCall EXCEPT !.op = "schema"]]
    /\ UNCHANGED <<config, created, dest, temp, pc, append_only, records,
                   data_to_insert, stmts, redeliver, nbatch, restarts, clock,
                   dest0, upsert0>>

RecordsWithoutSchema ==
    [kind |-> "RecordsWithoutSchemaException", table |-> 0, primary_keys |-> <<>>]

\* _process_record_message without the test of lines 177-179: the record is
\* handed on whether or not the stream has a schema.
ProcessRecordMessageUnchecked(s, r) ==
    /\ records' = [records EXCEPT ![s] =
                      (IF last[s].op = "record" THEN @ ELSE <<>>) \o <<r>>]
    /\ Len(records'[s]) <= MaxPending
    /\ nbatch[s] < MaxTargetBatches
    /\ pc[s] \in {"new", "idle"}
    /\ last' = [last EXCEPT ![s] = [NoCall EXCEPT !.op = "record"]]
    /\ error' = [error EXCEPT ![s] = NoError]
    /\ UNCHANGED <<config, active, created, key_properties, dest, temp, uuids, pc,
                   temp_table_name, append_only, data_to_insert, stmts, redeliver,
                   nbatch, restarts, clock, dest0, upsert0>>

\* target.py 170-185: a RECORD message. Without a schema for its stream it
\* raises RecordsWithoutSchemaException (177-179); otherwise the SDK hands the
\* record to the stream's sink, which keeps it for its next batch.
ProcessRecordMessage(s, r) ==
    IF s \notin active
    THEN /\ error' = [error EXCEPT ![s] = RecordsWithoutSchema]
         /\ last' = [last EXCEPT ![s] = [NoCall EXCEPT !.op = "record"]]
         /\ UNCHANGED <<config, active, created, key_properties, dest, temp, uuids, pc,
                        temp_table_name, append_only, records, data_to_insert, stmts,
                        redeliver, nbatch, restarts, clock, dest0, upsert0>>
    ELSE /\ pc[s] = "idle"
         /\ nbatch[s] < MaxTargetBatches
         /\ records' = [records EXCEPT ![s] =
                           (IF last[s].op = "record" THEN @ ELSE <<>>) \o <<r>>]
         /\ Len(records'[s]) <= MaxPending
         /\ last' = [last EXCEPT ![s] = [NoCall EXCEPT !.op = "record"]]
         /\ error' = [error EXCEPT ![s] = NoError]
         /\ UNCHANGED <<config, active, created, key_properties, dest, temp, uuids, pc,
                        temp_table_name, append_only, data_to_insert, stmts, redeliver,
                        nbatch, restarts, clock, dest0, upsert0>>

\* sinks.py 69: the sink is drained: process_batch is called with the records
\* the sink has been handed since its last batch.
ProcessBatchPending(s) ==
    /\ pc[s] = "idle"
    /\ last[s].op = "record"
    /\ ProcessBatchPrepare(s, records[s])

\* An ACTIVATE_VERSION message of a stream whose sink holds no records that
\* wait for a batch: the target calls the sink's activate_version
\* (sinks.py 342-405).
ProcessActivateVersionMessage(s, new_version) ==
    /\ pc[s] = "idle"
    /\ last[s].op # "record"
    /\ clock < MaxTargetActivations
    /\ ActivateVersion(s, new_version)

NextTarget ==
    \/ \E s \in AllStreams : \E keys \in KeyLists : ProcessSchemaMessage(s, keys)
    \/ \E s \in AllStreams :
          \E r \in TargetRecords(key_properties[s], config.add_record_metadata) :
              ProcessRecordMessage(s, r)
    \/ \E s \in active : Setup(s)
    \/ \E s \in active : ProcessBatchPending(s)
    \/ \E s \in active : BulkInsertRecords(s)
    \/ \E s \in active : UpsertInsert(s)
    \/ \E s \in active : UpsertUpdate(s)
    \/ \E s \in active : DropTable(s)
    \/ \E s \in active : \E v \in 1 .. MaxVersion : ProcessActivateVersionMessage(s, v)

SpecTarget == InitTarget /\ [][NextTarget]_vars

\* ================================================================== claims
\* The primary-key tuple of a record or a row.
KeyTuple(r, primary_keys) == [i \in 1 .. Len(primary_keys) |-> r[primary_keys[i]]]

\* How many times x occurs in the sequence.
Count(seq, x) == Cardinality({i \in 1 .. Len(seq) : seq[i] = x})

\* The columns of the sink's schema.
SchemaColumns == Range(column_representation(config.add_record_metadata))

\* The sink has run bulk_insert_records on records[s] without an error.
Inserted(s) == pc[s] = "merge"

\* C1: in upsert mode the rows bulk_insert_records prepares hold exactly one
\* record per distinct primary-key tuple of the batch, and that record is the
\* projection of the last record of the batch with that tuple.
C1_DedupOnePerKeyTuple ==
    \A s \in active :
        (Inserted(s) /\ ~append_only[s]) =>
            LET recs == records[s]
                out == data_to_insert[s]
                keys == key_properties[s]
                LastWith(t) == CHOOSE i \in 1 .. Len(recs) :
                                  /\ KeyTuple(recs[i], keys) = t
                                  /\ \A j \in i + 1 .. Len(recs) : KeyTuple(recs[j], keys) # t
            IN  /\ Len(out) = Cardinality({KeyTuple(recs[i], keys) : i \in 1 .. Len(recs)})
                /\ \A i \in 1 .. Len(recs) :
                      \E j \in 1 .. Len(out) :
                          /\ KeyTuple(out[j], keys) = KeyTuple(recs[i], keys)
                          /\ out[j] = [c \in SchemaColumns |->
                                          Get(recs[LastWith(KeyTuple(recs[i], keys))], c)]

\* C9: in append-only mode the prepared rows correspond one to one and in order
\* to the input records (duplicates kept), each with exactly the schema's
\* columns, a missing field being NULL; the staging table receives them all.
C9_AppendOnlyPassthrough ==
    \A s \in active :
        (Inserted(s) /\ append_only[s]) =>
            LET recs == records[s]
                out == data_to_insert[s]
            IN  /\ Len(out) = Len(recs)
                /\ Len(temp[temp_table_name[s]].rows) = Len(recs)
                /\ \A i \in 1 .. Len(recs) :
                      /\ DOMAIN out[i] = SchemaColumns
                      /\ \A c \in SchemaColumns :
                            out[i][c] = IF c \notin DOMAIN recs[i] THEN NULL
                                        ELSE IF recs[i][c].t = "dec" THEN StrV(recs[i][c].n)
                                        ELSE recs[i][c]
                      /\ \A f \in Fields : temp[temp_table_name[s]].rows[i][f] =
                                              IF f \in SchemaColumns THEN out[i][f] ELSE NULL

\* C9 witness: an append-only batch of two equal records that lack a field and
\* carry a Decimal has been prepared.
C9_Witness ==
    \E s \in active :
        /\ Inserted(s) /\ append_only[s]
        /\ Len(records[s]) = 2
        /\ records[s][1] = records[s][2]
        /\ "a" \notin DOMAIN records[s][1]
        /\ "b" \in DOMAIN records[s][1] /\ records[s][1]["b"].t = "dec"

\* The sink's process_batch has run past bulk_insert_records with records[s].
PastInsert(s) ==
    \/ pc[s] \in {"merge", "update", "drop", "failed"}
    \/ pc[s] = "idle" /\ last[s].op = "process_batch" /\ nbatch[s] > 0

\* C10: in upsert mode a batch with a record that lacks a declared primary-key
\* field ends bulk_insert_records with the error of lines 161-166 (the spec's
\* MissingPrimaryKeyError), which carries the name of the table it was given
\* and the primary-key list; no row has reached the staging table or the
\* destination table, and no statement of the merge is issued.
C10_MissingPrimaryKey ==
    \A s \in active :
        (PastInsert(s) /\ key_properties[s] # <<>>
            /\ \E i \in 1 .. Len(records[s]) :
                  \E k \in Range(key_properties[s]) : k \notin DOMAIN records[s][i]) =>
            /\ pc[s] = "failed"
            /\ error[s].kind = "RuntimeError"
            /\ error[s].table = temp_table_name[s]
            /\ error[s].primary_keys = key_properties[s]
            /\ temp[temp_table_name[s]].rows = <<>>
            /\ dest[s].rows = dest0[s].rows
            /\ \A i \in 1 .. Len(stmts[s]) :
                  stmts[s][i] \notin {"insert_ignore", "insert_new", "insert_select", "update"}

\* C10 witness: a batch whose second record lacks a primary key, after a first
\* record that has them all, has failed against a destination that holds a row.
C10_Witness ==
    \E s \in active :
        /\ pc[s] = "failed"
        /\ Len(records[s]) = 2
        /\ \A k \in Range(key_properties[s]) : k \in DOMAIN records[s][1]
        /\ \E k \in Range(key_properties[s]) : k \notin DOMAIN records[s][2]
        /\ Len(dest[s].rows) > 0

\* The upsert of the sink's batch has ended and the staging table still exists.
Merged(s) == pc[s] = "drop"

\* C2: after one upsert-mode merge of a staging table with one row per key
\* tuple, a staging key tuple that was absent from the destination is present
\* with the staging row's values, a tuple that was present has its schema
\* columns equal to the staging row's, and the destination rows whose tuple is
\* not in staging are unchanged.
C2_InsertUpdatePartition ==
    \A s \in active :
        (Merged(s) /\ ~append_only[s]) =>
            LET from == temp[temp_table_name[s]].rows
                pre == upsert0[s].rows
                post == dest[s].rows
                keys == key_properties[s]
                Has(rows, t) == \E i \in 1 .. Len(rows) : KeyTuple(rows[i], keys) = t
            IN  (\A i, j \in 1 .. Len(from) :
                    i # j => KeyTuple(from[i], keys) # KeyTuple(from[j], keys)) =>
                /\ \A j \in 1 .. Len(from) :
                      IF Has(pre, KeyTuple(from[j], keys))
                      THEN /\ Has(post, KeyTuple(from[j], keys))
                           /\ \A i \in 1 .. Len(post) :
                                 KeyTuple(post[i], keys) = KeyTuple(from[j], keys) =>
                                     \A c \in SchemaColumns : post[i][c] = from[j][c]
                      ELSE Count(post, from[j]) = 1
                /\ \A i \in 1 .. Len(pre) :
                      ~Has(from, KeyTuple(pre[i], keys)) => Count(post, pre[i]) = Count(pre, pre[i])
                /\ \A i \in 1 .. Len(post) :
                      Has(pre, KeyTuple(post[i], keys)) \/ Has(from, KeyTuple(post[i], keys))

\* C2 witness: a merge has ended whose staging table held a row that joined
\* with a destination row of other values and a row with a new key.
C2_Witness ==
    \E s \in active :
        /\ Merged(s) /\ ~append_only[s]
        /\ LET from == temp[temp_table_name[s]].rows
               pre == upsert0[s].rows
               keys == key_properties[s]
           IN  /\ \E j \in 1 .. Len(from) : \E i \in 1 .. Len(pre) :
                     /\ KeyTuple(pre[i], keys) = KeyTuple(from[j], keys)
                     /\ \E c \in SchemaColumns : pre[i][c] # from[j][c]
               /\ \E j \in 1 .. Len(from) : \A i \in 1 .. Len(pre) :
                     KeyTuple(pre[i], keys) # KeyTuple(from[j], keys)

\* C3: in upsert mode, merging the staging contents again right after a merge
\* leaves the destination as the first merge left it.
C3_UpsertIdempotent ==
    \A s \in active :
        (Merged(s) /\ ~append_only[s]) =>
            Upsert(temp[temp_table_name[s]].rows, dest[s].rows, key_properties[s],
                   column_representation(config.add_record_metadata), FALSE)
                = dest[s].rows

\* C3 witness: a merge that inserted a row and updated another has ended.
C3_Witness ==
    \E s \in active :
        /\ Merged(s) /\ ~append_only[s]
        /\ Len(dest[s].rows) > Len(upsert0[s].rows)
        /\ \E i \in 1 .. Len(upsert0[s].rows) : dest[s].rows[i] # upsert0[s].rows[i]

\* The destination rows one uninterrupted run of the batch leaves.
OneRun(s) ==
    LET columns == column_representation(config.add_record_metadata)
        keys == key_properties[s]
        staged == InsertIgnore(<<>>, DataToInsert(records[s], columns, keys, keys = <<>>), keys)
    IN  Upsert(staged, dest0[s].rows, keys, columns, keys = <<>>)

\* The sink's batch has been completed.
Completed(s) == pc[s] = "idle" /\ last[s].op = "process_batch" /\ nbatch[s] > 0

\* The host process has stopped during the sink's batch and has been started
\* again; the batch has not been delivered again yet.
Interrupted(s) == pc[s] = "new" /\ redeliver[s]

\* C4: an upsert-mode batch that is interrupted at any point and run again
\* from the top with the same records leaves the destination as one
\* uninterrupted run does; after the interruption the destination holds only
\* rows it held before the batch or rows that carry a record of the batch.
C4_CrashRetrySafe ==
    \A s \in active :
        key_properties[s] # <<>> =>
            /\ Completed(s) => dest[s].rows = OneRun(s)
            /\ Interrupted(s) =>
                  \A i \in 1 .. Len(dest[s].rows) :
                      \/ dest[s].rows[i] \in Range(dest0[s].rows)
                      \/ \E j \in 1 .. Len(records[s]) :
                            \A c \in SchemaColumns :
                                dest[s].rows[i][c] = Get(records[s][j], c)

\* C4 witness: a batch has been completed by a second run that found the
\* destination partly or wholly merged by the interrupted first run.
C4_Witness ==
    \E s \in active :
        /\ key_properties[s] # <<>>
        /\ Completed(s) /\ restarts > 0
        /\ upsert0[s].rows # dest0[s].rows
        /\ dest[s].rows # upsert0[s].rows

\* The last handler of the sink was activate_version on an existing table.
Activated(s) == last[s].op = "activate_version" /\ dest0[s].exists

\* C5: a soft-delete activation leaves every deletion timestamp that was set
\* before the call as it was.
C5_SoftDeleteKeepsFirstDeletionTime ==
    \A s \in active :
        (Activated(s) /\ ~config.hard_delete) =>
            /\ Len(dest[s].rows) = Len(dest0[s].rows)
            /\ \A i \in 1 .. Len(dest0[s].rows) :
                  ~IsNull(dest0[s].rows[i].del) => dest[s].rows[i].del = dest0[s].rows[i].del

\* C6: a soft-delete activation with watermark w sets the deletion timestamp
\* of exactly the rows whose version is below w or null and whose deletion
\* timestamp was unset; rows of version >= w keep an unset timestamp; no row
\* is removed.
C6_SoftDeleteSelection ==
    \A s \in active :
        (Activated(s) /\ ~config.hard_delete) =>
            LET w == last[s].new_version
                pre == dest0[s].rows
                post == dest[s].rows
            IN  /\ Len(post) = Len(pre)
                /\ \A i \in 1 .. Len(pre) :
                      LET stale == pre[i].ver.t = "null" \/ pre[i].ver.n < w
                      IN  IF stale /\ IsNull(pre[i].del)
                          THEN post[i] = [pre[i] EXCEPT !.del = TsV(last[s].deleted_at)]
                          ELSE post[i] = pre[i]

\* C7: a hard-delete activation with watermark w removes exactly the rows
\* whose version is <= w or null and leaves the rows of version > w as they
\* were.
C7_HardDelete ==
    \A s \in active :
        (Activated(s) /\ config.hard_delete) =>
            LET w == last[s].new_version
                pre == dest0[s].rows
                post == dest[s].rows
                Kept(r) == r.ver.t = "int" /\ r.ver.n > w
            IN  /\ \A i \in 1 .. Len(post) : Kept(post[i])
                /\ \A i \in 1 .. Len(pre) :
                      Kept(pre[i]) => Count(post, pre[i]) = Count(pre, pre[i])
                /\ \A i \in 1 .. Len(post) : post[i] \in Range(pre)

\* C7 witness: a hard-delete activation with watermark 2 has removed rows of
\* a version below or at the watermark and kept a row of version 3.
C7_Witness ==
    \E s \in active :
        /\ Activated(s) /\ config.hard_delete
        /\ last[s].new_version = 2
        /\ \E i \in 1 .. Len(dest0[s].rows) : dest0[s].rows[i].ver = IntV(2)
        /\ \E i \in 1 .. Len(dest0[s].rows) : dest0[s].rows[i].ver = IntV(3)
        /\ Len(dest[s].rows) = 1 /\ dest[s].rows[1].ver = IntV(3)

\* The step is an activate_version call of sink s.
ActivateStep(s) ==
    /\ clock' = clock + 1
    /\ last'[s].op = "activate_version" /\ last'[s].deleted_at = clock'

\* C8: activate_version on a stream whose destination table does not exist
\* issues no statement, changes no table and raises no error, in either
\* delete mode.
C8_MissingTableNoOp ==
    [][\A s \in active :
          (ActivateStep(s) /\ ~dest[s].exists) =>
              /\ dest' = dest
              /\ temp' = temp
              /\ stmts'[s] = <<>>
              /\ error' = error
              /\ pc' = pc]_vars

\* C8 witness: activate_version has been called in hard-delete mode on a
\* stream without a destination table.
C8_Witness ==
    \E s \in active :
        /\ last[s].op = "activate_version"
        /\ config.hard_delete
        /\ ~dest0[s].exists /\ ~dest[s].exists
        /\ stmts[s] = <<>>

\* The sink's last handler is a process_batch call that has ended: it has
\* completed, or it has raised its error.
BatchEnded(s) == last[s].op = "process_batch" /\ pc[s] \in {"idle", "failed"}

\* C11: whenever a process_batch call has ended, by completing or by raising
\* the error of a failed step, and the host process was not stopped, the
\* staging table that call created no longer exists.
C11_StagingDropped ==
    \A s \in active :
        BatchEnded(s) => ~temp[temp_table_name[s]].exists

\* C14: one append-only merge leaves the destination as its rows before the
\* merge followed by every staging row: the row count grows by the staging
\* row count, every row occurs as often as in both together, and the rows the
\* destination held are in place and unchanged.
C14_AppendOnlyPureAppend ==
    \A s \in active :
        (Merged(s) /\ append_only[s]) =>
            LET from == temp[temp_table_name[s]].rows
                pre == upsert0[s].rows
                post == dest[s].rows
            IN  /\ Len(post) = Len(pre) + Len(from)
                /\ \A i \in 1 .. Len(pre) : post[i] = pre[i]
                /\ \A r \in Range(pre) \cup Range(from) \cup Range(post) :
                      Count(post, r) = Count(pre, r) + Count(from, r)

\* C14 witness: an append-only merge of two equal staging rows into a
\* destination that already held an equal row has ended.
C14_Witness ==
    \E s \in active :
        /\ Merged(s) /\ append_only[s]
        /\ LET from == temp[temp_table_name[s]].rows
           IN  /\ Len(from) = 2 /\ from[1] = from[2]
               /\ Len(upsert0[s].rows) > 0 /\ upsert0[s].rows[1] = from[1]
               /\ Count(dest[s].rows, from[1]) = 3

\* The rows an append-only batch puts into its staging table.
Staged(s) ==
    InsertIgnore(<<>>, DataToInsert(records[s],
                                     column_representation(config.add_record_metadata),
                                     <<>>, TRUE), <<>>)

\* k copies of the rows, one after the other.
RECURSIVE Repeat(_, _)
Repeat(rows, k) == IF k = 0 THEN <<>> ELSE rows \o Repeat(rows, k - 1)

\* C15 as stated: an append-only batch that is interrupted at any step and run
\* again from the top with the same records leaves the destination as one
\* uninterrupted run of the batch does.
C15_AppendRetrySafe ==
    \A s \in active :
        (key_properties[s] = <<>> /\ Completed(s)) => dest[s].rows = OneRun(s)

\* C15 amended: the run that completes an append-only batch appends the
\* batch's rows to whatever the destination held when its merge began, and
\* that is the rows from before the batch followed by the batch's rows once
\* for every interrupted run that had executed the append; so the result is
\* that of one uninterrupted run exactly when no interrupted run had appended.
C15_AppendRetryAppendsAgain ==
    \A s \in active :
        key_properties[s] = <<>> =>
            /\ Completed(s) =>
                  /\ dest[s].rows = upsert0[s].rows \o Staged(s)
                  /\ \E k \in 0 .. restarts :
                        upsert0[s].rows = dest0[s].rows \o Repeat(Staged(s), k)
                  /\ (dest[s].rows = OneRun(s)) <=>
                        (upsert0[s].rows = dest0[s].rows \/ Staged(s) = <<>>)
            /\ Interrupted(s) =>
                  \E k \in 0 .. restarts :
                      dest[s].rows = dest0[s].rows \o Repeat(Staged(s), k)

\* C15 witness: an append-only batch has been completed by a second run after
\* the first run was stopped past its append: the destination holds the
\* batch's rows twice.
C15_Witness ==
    \E s \in active :
        /\ key_properties[s] = <<>> /\ Completed(s) /\ restarts > 0
        /\ Staged(s) # <<>>
        /\ dest[s].rows = dest0[s].rows \o Staged(s) \o Staged(s)

\* The statements of one process_batch call, in the order of sinks.py 78-107.
BatchStatements(s) ==
    <<"create_temp_table", "insert_ignore">>
    \o (IF append_only[s] THEN <<"insert_select">> ELSE <<"insert_new", "update">>)
    \o <<"drop_table">>

\* The statements the sink's process_batch has issued, without the creation of
\* the destination table that may come first.
IssuedInBatch(s) ==
    IF stmts[s] # <<>> /\ Head(stmts[s]) = "create_table" THEN Tail(stmts[s]) ELSE stmts[s]

\* How many statements of BatchStatements a process_batch call has issued
\* when it is at the position.
StepsDone(s) ==
    CASE pc[s] = "insert" -> 1
      [] pc[s] = "failed" -> 1
      [] pc[s] = "merge" -> 2
      [] pc[s] = "update" -> 3
      [] pc[s] = "drop" -> Len(BatchStatements(s)) - 1
      [] OTHER -> Len(BatchStatements(s))

\* C16: the statements of every process_batch call are issued in the order
\* ensure destination table, create staging table, insert into staging, merge,
\* drop staging; the destination's rows are not written before the staging
\* insert has ended; and after a failed step no later step of the batch runs.
C16_BatchStepOrder ==
    /\ [](\A s \in active :
            last[s].op = "process_batch" =>
                /\ IssuedInBatch(s) = SubSeq(BatchStatements(s), 1, StepsDone(s))
                /\ \A i \in 2 .. Len(stmts[s]) : stmts[s][i] # "create_table")
    /\ [][\A s \in active :
            /\ (pc'[s] # pc[s] /\ pc'[s] \in {"insert", "merge", "failed"}) =>
                  dest'[s].rows = dest[s].rows
            /\ (pc[s] = "failed" /\ restarts' = restarts) =>
                  /\ pc'[s] = "failed" /\ stmts'[s] = stmts[s]
                  /\ dest'[s] = dest[s] /\ temp' = temp]_vars

\* C16 witness: an upsert-mode batch with records has gone through all its
\* steps and has changed the destination.
C16_Witness ==
    \E s \in active :
        /\ Completed(s) /\ ~append_only[s]
        /\ Len(records[s]) > 0 /\ dest[s].rows # dest0[s].rows
        /\ stmts[s] = <<"create_temp_table", "insert_ignore",
                        "insert_new", "update", "drop_table">>

\* C17: in upsert mode, when the merge of a batch that bulk_insert_records
\* accepted starts, no two rows of the staging table share a primary-key tuple.
C17_StagingOneRowPerKey ==
    \A s \in active :
        (Inserted(s) /\ ~append_only[s]) =>
            LET from == temp[temp_table_name[s]].rows
            IN  \A i, j \in 1 .. Len(from) :
                    i # j => KeyTuple(from[i], key_properties[s])
                                 # KeyTuple(from[j], key_properties[s])

\* C17 witness: the merge of an upsert-mode batch of two records with the
\* same primary-key tuple is about to start on a staging table of one row.
C17_Witness ==
    \E s \in active :
        /\ Inserted(s) /\ ~append_only[s]
        /\ Len(records[s]) = 2
        /\ KeyTuple(records[s][1], key_properties[s]) = KeyTuple(records[s][2], key_properties[s])
        /\ records[s][1] # records[s][2]
        /\ Len(temp[temp_table_name[s]].rows) = 1

\* C18: activate_version on an existing table leaves it with the version
\* column, adding it (with NULL in every row) only when it was missing; the
\* deletion-timestamp column is added only by a soft-delete activation and
\* only when it was missing; a hard-delete activation neither adds that
\* column nor writes it.
C18_LazyMetadataColumns ==
    [][\A s \in active :
          (ActivateStep(s) /\ dest[s].exists) =>
              LET pre == dest[s]
                  post == dest'[s]
                  Adds(x) == \E i \in 1 .. Len(stmts'[s]) : stmts'[s][i] = x
              IN  /\ post.hasVer
                  /\ Adds("add_column_ver") <=> ~pre.hasVer
                  /\ ~pre.hasVer => \A i \in 1 .. Len(post.rows) : IsNull(post.rows[i].ver)
                  /\ Adds("add_column_del") <=> (~config.hard_delete /\ ~pre.hasDel)
                  /\ post.hasDel <=> (pre.hasDel \/ ~config.hard_delete)
                  /\ config.hard_delete =>
                        \A i \in 1 .. Len(post.rows) :
                            \E j \in 1 .. Len(pre.rows) : post.rows[i] = pre.rows[j]]_vars

\* C18 witness: a hard-delete activation has run on a table with rows that
\* had neither metadata column: the version column is there, the
\* deletion-timestamp column is not.
C18_Witness ==
    \E s \in active :
        /\ Activated(s) /\ config.hard_delete
        /\ ~dest0[s].hasVer /\ ~dest0[s].hasDel /\ Len(dest0[s].rows) > 0
        /\ dest[s].hasVer /\ ~dest[s].hasDel

\* The step is the creation of a staging table by sink s (sinks.py 86-91).
CreatesStaging(s) == pc[s] = "idle" /\ pc'[s] = "insert"

\* C12: every creation of a staging table uses a name under which no staging
\* table was created before in the run, by the same sink or by another.
C12_FreshStagingName ==
    [][\A s \in active : CreatesStaging(s) => temp_table_name[s] \notin created]_vars

\* The step is the handling of a RECORD message of stream s.
RecordStep(s) ==
    /\ last'[s].op = "record"
    /\ last[s].op # "record" \/ records'[s] # records[s]

\* C13: a RECORD message of a stream that has had no SCHEMA message raises
\* RecordsWithoutSchemaException and changes no sink and no table, whatever
\* other streams have declared; a RECORD message of a stream whose SCHEMA
\* message was processed earlier is not rejected with that error and reaches
\* the stream's sink.
C13_RecordBeforeSchema ==
    [][\A s \in AllStreams :
          RecordStep(s) =>
              IF s \notin active
              THEN /\ error'[s] = RecordsWithoutSchema
                   /\ UNCHANGED <<active, key_properties, dest, temp, uuids, pc,
                                  temp_table_name, append_only, records,
                                  data_to_insert, stmts, nbatch, created>>
              ELSE /\ error'[s].kind # "RecordsWithoutSchemaException"
                   /\ records'[s] # <<>>
                   /\ UNCHANGED <<active, dest, temp, pc>>]_vars

\* C13 witness: a stream without a schema has had its record rejected after
\* another stream had declared its schema and had a record accepted.
C13_Witness ==
    \E s, t \in AllStreams :
        /\ s \notin active /\ error[s] = RecordsWithoutSchema
        /\ t \in active /\ last[t].op = "record" /\ records[t] # <<>>
        /\ error[t] = NoError

\* The rows the sink's batch puts into its staging table.
StagedRows(s) ==
    InsertIgnore(<<>>,
                 DataToInsert(records[s], column_representation(config.add_record_metadata),
                              key_properties[s], append_only[s]),
                 key_properties[s])

\* C19: sinks of different streams that process batches concurrently have
\* different staging tables; when a sink's merge starts its staging table
\* holds the rows of its own batch and nothing else; and a step of a sink
\* changes no destination table but its own stream's and no staging table but
\* its own.
C19_SinkIsolation ==
    /\ [](\A s, t \in active : s # t => temp_table_name[s] # temp_table_name[t])
    /\ [](\A s \in active :
            pc[s] \in {"merge", "update", "drop"} =>
                temp[temp_table_name[s]].rows = StagedRows(s))
    /\ [][\A s \in active :
            pc'[s] # pc[s] =>
                /\ \A t \in AllStreams \ {s} : dest'[t] = dest[t]
                /\ \A n \in TempNames \ {temp_table_name[s]} : temp'[n] = temp[n]]_vars

\* C19 witness: two sinks are in the middle of their batches at once, each
\* with rows in its own staging table, and the two batches differ.
C19_Witness ==
    \E s, t \in active :
        /\ s # t
        /\ pc[s] = "merge" /\ pc[t] = "update"
        /\ temp[temp_table_name[s]].rows # <<>>
        /\ temp[temp_table_name[t]].rows # <<>>
        /\ temp[temp_table_name[s]].rows # temp[temp_table_name[t]].rows

\* C20: once setup has run, the sink's append_only flag is true exactly when
\* the stream's primary-key list is empty; no later step changes the flag;
\* and in every batch the rows are prepared and merged in that one mode.
C20_ModeSelection ==
    /\ [](\A s \in active :
            pc[s] # "new" =>
                /\ append_only[s] <=> (key_properties[s] = <<>>)
                /\ Inserted(s) =>
                      data_to_insert[s] =
                          DataToInsert(records[s],
                                       column_representation(config.add_record_metadata),
                                       key_properties[s], key_properties[s] = <<>>)
                /\ (Merged(s) \/ Completed(s)) =>
                      ((\E i \in 1 .. Len(stmts[s]) : stmts[s][i] = "insert_select")
                           <=> (key_properties[s] = <<>>))
                /\ (Merged(s) \/ Completed(s)) =>
                      ((\E i \in 1 .. Len(stmts[s]) : stmts[s][i] = "insert_new")
                           <=> (key_properties[s] # <<>>)))
    /\ [][\A s \in active :
            pc[s] # "new" => append_only'[s] = append_only[s]]_vars

\* C20 witness: a sink without primary keys has completed two batches in
\* append-only mode while a sink with primary keys has completed one.
C20_Witness ==
    \E s, t \in active :
        /\ key_properties[s] = <<>> /\ append_only[s]
        /\ Completed(s) /\ nbatch[s] = 2
        /\ key_properties[t] # <<>> /\ ~append_only[t]
        /\ Completed(t)

\* C21: when activate_version runs on an existing table that has no version
\* column, the column is added and every row holds NULL in it, so a
\* hard-delete activation leaves the table empty whatever the watermark, and
\* a soft-delete activation keeps every row and sets the deletion timestamp
\* of every row that had none, leaving a timestamp already set as it was.
C21_FirstActivationAffectsEveryRow ==
    [][\A s \in active :
          (ActivateStep(s) /\ dest[s].exists /\ ~dest[s].hasVer) =>
              LET pre == dest[s].rows
                  post == dest'[s].rows
              IN  /\ dest'[s].exists /\ dest'[s].hasVer
                  /\ \A i \in 1 .. Len(pre) : IsNull(pre[i].ver)
                  /\ IF config.hard_delete
                     THEN post = <<>>
                     ELSE /\ Len(post) = Len(pre)
                          /\ \A i \in 1 .. Len(pre) :
                                post[i] = IF IsNull(pre[i].del)
                                          THEN [pre[i] EXCEPT !.del = TsV(last'[s].deleted_at)]
                                          ELSE pre[i]]_vars

\* C21 witness: a hard-delete activation with the lowest watermark has
\* emptied a table that held a row and had no version column.
C21_Witness ==
    \E s \in active :
        /\ Activated(s) /\ config.hard_delete
        /\ last[s].new_version = 1
        /\ ~dest0[s].hasVer /\ Len(dest0[s].rows) > 0
        /\ dest[s].hasVer /\ dest[s].rows = <<>>

\* The rows of sub are rows of sup, in their order (sup with rows removed).
RECURSIVE IsSubSeq(_, _)
IsSubSeq(sub, sup) ==
    IF sub = <<>> THEN TRUE
    ELSE IF sup = <<>> THEN FALSE
    ELSE IF Head(sub) = Head(sup) THEN IsSubSeq(Tail(sub), Tail(sup))
    ELSE IsSubSeq(sub, Tail(sup))

\* C22: an activate_version call of a stream changes no staging table and no
\* destination table of another stream; in soft-delete mode it removes no
\* row and changes no column of a row but the deletion timestamp; in
\* hard-delete mode the rows it keeps are rows the table held, unchanged and
\* in their order.
C22_ActivateVersionFrame ==
    [][\A s \in active :
          ActivateStep(s) =>
              LET pre == dest[s].rows
                  post == dest'[s].rows
              IN  /\ temp' = temp
                  /\ \A t \in AllStreams \ {s} : dest'[t] = dest[t]
                  /\ dest'[s].exists = dest[s].exists
                  /\ IF config.hard_delete
                     THEN IsSubSeq(post, pre)
                     ELSE /\ Len(post) = Len(pre)
                          /\ \A i \in 1 .. Len(pre) :
                                \A f \in Fields \ {soft_delete_column_name} :
                                    post[i][f] = pre[i][f]]_vars

\* C22 witness: a soft-delete activation has stamped the rows of its stream
\* while the sink of another stream was in the middle of a batch, with rows in
\* its staging table and in its destination table.
C22_Witness ==
    \E s, t \in active :
        /\ s # t
        /\ last[s].op = "activate_version" /\ ~config.hard_delete
        /\ Len(dest0[s].rows) > 0 /\ dest[s].rows # dest0[s].rows
        /\ pc[t] \in InBatch
        /\ temp[temp_table_name[t]].rows # <<>>
        /\ dest[t].rows # <<>>

====
